---- MODULE Spec2Model ----
(***************************************************************************)
(* Model of utils/lut_presets.py: the LUT preset validator.                *)
(*                                                                         *)
(* A preset is a Python dict; it is modelled as a function whose DOMAIN is *)
(* the set of keys present.  A Python value is a record                    *)
(*   [kind, n, s, elems]                                                   *)
(* kind is the Python type, n the numeric value (or the length of a str),  *)
(* s the text of a str, elems the items of a list or of a generator.       *)
(* An exception is a record [cls, rule, arg]; cls = "none" means that the  *)
(* call returned normally.                                                 *)
(***************************************************************************)
EXTENDS Integers, Sequences, FiniteSets, TLC

VARIABLES preset, before, last, exc, ret

vars == <<preset, before, last, exc, ret>>

-----------------------------------------------------------------------------
(* Python values *)

IntV(i) == [kind |-> "int", n |-> i, s |-> "", elems |-> <<>>]

FloatV(i) == [kind |-> "float", n |-> i, s |-> "", elems |-> <<>>]

BoolV(i) == [kind |-> "bool", n |-> i, s |-> "", elems |-> <<>>]

StrV(t, l) == [kind |-> "str", n |-> l, s |-> t, elems |-> <<>>]

ListV(es) == [kind |-> "list", n |-> 0, s |-> "", elems |-> es]

GenV(es) == [kind |-> "generator", n |-> 0, s |-> "", elems |-> es]

(* isinstance(v, int): bool is a subclass of int *)
IsInstanceInt(v) == v.kind \in {"int", "bool"}

(* isinstance(v, (int, float)) *)
IsInstanceNumber(v) == v.kind \in {"int", "bool", "float"}

(* isinstance(v, collections.Iterable): the value has __iter__ *)
IsIterable(v) == v.kind \in {"list", "str", "generator"}

(* the value has __len__; len() of any other value raises TypeError *)
HasLen(v) == v.kind \in {"list", "str"}

PyLen(v) == IF v.kind = "str" THEN v.n ELSE Len(v.elems)

(* the items that iterating over v yields: the characters of a str are str *)
PyItems(v) == IF v.kind = "str" THEN [i \in 1..v.n |-> StrV("c", 1)] ELSE v.elems

-----------------------------------------------------------------------------
(* Attributes and constants, lut_presets.py lines 40-60 *)

TYPE == "type"

TYPE_CHOICE == <<"default", "1D", "2D", "3D">>

EXT == "extension"

VERSION == "version"

TITLE == "title"

COMMENT == "comment"

IN_RANGE == "input_range"

OUT_RANGE == "output_range"

OUT_BITDEPTH == "output_bitdepth"

CUBE_SIZE == "cube_size"

BASIC_ATTRS == <<TYPE, EXT, VERSION, TITLE, COMMENT, IN_RANGE, OUT_RANGE>>

BITDEPTH_MAX_VALUE == 128

BITDEPTH_MIN_VALUE == 8

CUBE_SIZE_MAX_VALUE == 128

CUBE_SIZE_MIN_VALUE == 3

RAISE_MODE == "raise"

FILL_MODE == "fill"

Fields == {TYPE, EXT, VERSION, TITLE, COMMENT, IN_RANGE, OUT_RANGE, OUT_BITDEPTH, CUBE_SIZE}

(* value in TYPE_CHOICE: list membership, by == against each str *)
InTypeChoice(v) == v.kind = "str" /\ \E i \in 1..Len(TYPE_CHOICE) : v.s = TYPE_CHOICE[i]

TypeIs(v, t) == v.kind = "str" /\ v.s = t

get_default_preset ==
    (TYPE :> StrV("default", 7)) @@ (EXT :> StrV(".lut", 4))
    @@ (IN_RANGE :> ListV(<<FloatV(0), FloatV(1)>>))
    @@ (OUT_RANGE :> ListV(<<FloatV(0), FloatV(1)>>))
    @@ (OUT_BITDEPTH :> IntV(12)) @@ (CUBE_SIZE :> IntV(17))
    @@ (TITLE :> StrV("LUT", 3))
    @@ (COMMENT :> StrV("Generated by ColorPipe-tools", 28))
    @@ (VERSION :> StrV("1", 1))

-----------------------------------------------------------------------------
(* Exceptions *)

NoExc == [cls |-> "none", rule |-> "", arg |-> ""]

PresetException(rule, arg) == [cls |-> "PresetException", rule |-> rule, arg |-> arg]

TypeError(arg) == [cls |-> "TypeError", rule |-> "len", arg |-> arg]

KeyError(arg) == [cls |-> "KeyError", rule |-> "getitem", arg |-> arg]

(* preset[attr] = value *)
SetItem(p, attr, value) == [a \in DOMAIN p \cup {attr} |-> IF a = attr THEN value ELSE p[a]]

(* the state of a run of __validate_preset: the dict and the pending exception *)
Run(p, e) == [p |-> p, exc |-> e]

-----------------------------------------------------------------------------
(* __is_range: "True", "False", or "TypeError" when len() raises *)

is_range(arange) ==
    IF ~IsIterable(arange) THEN "False"
    ELSE IF ~HasLen(arange) THEN "TypeError"
    ELSE IF PyLen(arange) # 2 THEN "False"
    ELSE IF \E i \in 1..PyLen(arange) : ~IsInstanceNumber(PyItems(arange)[i]) THEN "False"
    ELSE "True"

-----------------------------------------------------------------------------
(* __validate_preset, one operator per rule; a pending exception ends the run *)

RECURSIVE CheckBasicAttrs(_, _, _)
(* lines 114-118: for attr in BASIC_ATTRS, from index i on *)
CheckBasicAttrs(st, mode, i) ==
    IF st.exc # NoExc \/ i > Len(BASIC_ATTRS) THEN st
    ELSE LET attr == BASIC_ATTRS[i] IN
         IF attr \notin DOMAIN st.p
         THEN IF mode = RAISE_MODE
              THEN Run(st.p, PresetException("missing_attr", attr))
              ELSE CheckBasicAttrs(Run(SetItem(st.p, attr, get_default_preset[attr]), NoExc), mode, i + 1)
         ELSE CheckBasicAttrs(st, mode, i + 1)

(* variant: the type is reset before the exception is raised *)
CheckType_RepairThenRaise(st, mode) ==
    IF st.exc # NoExc THEN st
    ELSE IF ~InTypeChoice(st.p[TYPE])
         THEN IF mode = RAISE_MODE
              THEN Run(SetItem(st.p, TYPE, get_default_preset[TYPE]), PresetException("invalid_type", TYPE))
              ELSE Run(SetItem(st.p, TYPE, get_default_preset[TYPE]), NoExc)
         ELSE st

(* lines 120-124: check if type is correct *)
CheckType(st, mode) ==
    IF st.exc # NoExc THEN st
    ELSE IF ~InTypeChoice(st.p[TYPE])
         THEN IF mode = RAISE_MODE
              THEN Run(st.p, PresetException("invalid_type", TYPE))
              ELSE Run(SetItem(st.p, TYPE, get_default_preset[TYPE]), NoExc)
         ELSE st

(* variant: both attributes are set, whether missing or not *)
CheckDefaultType_Overwrite(st, mode) ==
    IF st.exc # NoExc THEN st
    ELSE IF TypeIs(st.p[TYPE], "default")
            /\ (OUT_BITDEPTH \notin DOMAIN st.p \/ CUBE_SIZE \notin DOMAIN st.p)
         THEN IF mode = RAISE_MODE
              THEN Run(st.p, PresetException("incomplete_default", TYPE))
              ELSE LET p1 == SetItem(st.p, OUT_BITDEPTH, get_default_preset[OUT_BITDEPTH])
                       p2 == SetItem(p1, CUBE_SIZE, get_default_preset[CUBE_SIZE])
                   IN Run(SetItem(p2, TYPE, get_default_preset[TYPE]), NoExc)
         ELSE st

(* lines 127-137: default type *)
CheckDefaultType(st, mode) ==
    IF st.exc # NoExc THEN st
    ELSE IF TypeIs(st.p[TYPE], "default")
            /\ (OUT_BITDEPTH \notin DOMAIN st.p \/ CUBE_SIZE \notin DOMAIN st.p)
         THEN IF mode = RAISE_MODE
              THEN Run(st.p, PresetException("incomplete_default", TYPE))
              ELSE LET p1 == IF OUT_BITDEPTH \notin DOMAIN st.p
                             THEN SetItem(st.p, OUT_BITDEPTH, get_default_preset[OUT_BITDEPTH])
                             ELSE st.p
                       p2 == IF CUBE_SIZE \notin DOMAIN p1
                             THEN SetItem(p1, CUBE_SIZE, get_default_preset[CUBE_SIZE])
                             ELSE p1
                   IN Run(SetItem(p2, TYPE, get_default_preset[TYPE]), NoExc)
         ELSE st

(* variant: fill mode repairs a missing bit depth only, not an invalid one *)
Check1D2D_NoRangeRepair(st, mode) ==
    IF st.exc # NoExc THEN st
    ELSE IF TypeIs(st.p[TYPE], "1D") \/ TypeIs(st.p[TYPE], "2D")
         THEN IF OUT_BITDEPTH \notin DOMAIN st.p
              THEN IF mode = RAISE_MODE
                   THEN Run(st.p, PresetException("missing_bitdepth", OUT_BITDEPTH))
                   ELSE Run(SetItem(st.p, OUT_BITDEPTH, get_default_preset[OUT_BITDEPTH]), NoExc)
              ELSE IF ~IsInstanceInt(st.p[OUT_BITDEPTH])
                      \/ st.p[OUT_BITDEPTH].n < BITDEPTH_MIN_VALUE
                      \/ st.p[OUT_BITDEPTH].n > BITDEPTH_MAX_VALUE
                   THEN IF mode = RAISE_MODE
                        THEN Run(st.p, PresetException("invalid_bitdepth", OUT_BITDEPTH))
                        ELSE st
                   ELSE st
         ELSE st

(* lines 139-151: 1D / 2D type *)
Check1D2D(st, mode) ==
    IF st.exc # NoExc THEN st
    ELSE IF TypeIs(st.p[TYPE], "1D") \/ TypeIs(st.p[TYPE], "2D")
         THEN IF OUT_BITDEPTH \notin DOMAIN st.p
              THEN IF mode = RAISE_MODE
                   THEN Run(st.p, PresetException("missing_bitdepth", OUT_BITDEPTH))
                   ELSE Run(SetItem(st.p, OUT_BITDEPTH, get_default_preset[OUT_BITDEPTH]), NoExc)
              ELSE IF ~IsInstanceInt(st.p[OUT_BITDEPTH])
                      \/ st.p[OUT_BITDEPTH].n < BITDEPTH_MIN_VALUE
                      \/ st.p[OUT_BITDEPTH].n > BITDEPTH_MAX_VALUE
                   THEN IF mode = RAISE_MODE
                        THEN Run(st.p, PresetException("invalid_bitdepth", OUT_BITDEPTH))
                        ELSE Run(SetItem(st.p, OUT_BITDEPTH, get_default_preset[OUT_BITDEPTH]), NoExc)
                   ELSE st
         ELSE st

(* variant: the cube size rule runs for every type but default *)
Check3D_AnyOtherType(st, mode) ==
    IF st.exc # NoExc THEN st
    ELSE IF ~TypeIs(st.p[TYPE], "default")
         THEN IF CUBE_SIZE \notin DOMAIN st.p
              THEN IF mode = RAISE_MODE
                   THEN Run(st.p, PresetException("missing_cube_size", CUBE_SIZE))
                   ELSE Run(SetItem(st.p, CUBE_SIZE, get_default_preset[CUBE_SIZE]), NoExc)
              ELSE IF ~IsInstanceInt(st.p[CUBE_SIZE])
                      \/ st.p[CUBE_SIZE].n < CUBE_SIZE_MIN_VALUE
                      \/ st.p[CUBE_SIZE].n > CUBE_SIZE_MAX_VALUE
                   THEN IF mode = RAISE_MODE
                        THEN Run(st.p, PresetException("invalid_cube_size", CUBE_SIZE))
                        ELSE Run(SetItem(st.p, CUBE_SIZE, get_default_preset[CUBE_SIZE]), NoExc)
                   ELSE st
         ELSE st

(* lines 153-165: 3D type *)
Check3D(st, mode) ==
    IF st.exc # NoExc THEN st
    ELSE IF TypeIs(st.p[TYPE], "3D")
         THEN IF CUBE_SIZE \notin DOMAIN st.p
              THEN IF mode = RAISE_MODE
                   THEN Run(st.p, PresetException("missing_cube_size", CUBE_SIZE))
                   ELSE Run(SetItem(st.p, CUBE_SIZE, get_default_preset[CUBE_SIZE]), NoExc)
              ELSE IF ~IsInstanceInt(st.p[CUBE_SIZE])
                      \/ st.p[CUBE_SIZE].n < CUBE_SIZE_MIN_VALUE
                      \/ st.p[CUBE_SIZE].n > CUBE_SIZE_MAX_VALUE
                   THEN IF mode = RAISE_MODE
                        THEN Run(st.p, PresetException("invalid_cube_size", CUBE_SIZE))
                        ELSE Run(SetItem(st.p, CUBE_SIZE, get_default_preset[CUBE_SIZE]), NoExc)
                   ELSE st
         ELSE st

(* line 167 *)
ranges == <<IN_RANGE, OUT_RANGE>>

RECURSIVE CheckRanges(_, _, _)
(* lines 168-173: for arange in ranges, from index i on *)
CheckRanges(st, mode, i) ==
    IF st.exc # NoExc \/ i > Len(ranges) THEN st
    ELSE LET arange == ranges[i]
             ok == is_range(st.p[arange])
         IN IF ok = "TypeError" THEN Run(st.p, TypeError(arange))
            ELSE IF ok = "False"
                 THEN IF mode = RAISE_MODE
                      THEN Run(st.p, PresetException("invalid_range", arange))
                      ELSE CheckRanges(Run(SetItem(st.p, arange, get_default_preset[arange]), NoExc), mode, i + 1)
                 ELSE CheckRanges(st, mode, i + 1)

(* variant: the default type rule runs before the type is checked *)
validate_preset_SwappedRules(p, mode) ==
    LET s1 == CheckBasicAttrs(Run(p, NoExc), mode, 1)
        s2 == CheckDefaultType(s1, mode)
        s3 == CheckType(s2, mode)
        s4 == Check1D2D(s3, mode)
        s5 == Check3D(s4, mode)
        s6 == CheckRanges(s5, mode, 1)
    IN [p |-> s6.p, exc |-> s6.exc, ret |-> IF s6.exc = NoExc THEN "preset" ELSE "raised"]

(* lines 100-175: the dict as left by the run, the exception raised if any,
   and the value returned *)
validate_preset(p, mode) ==
    LET s1 == CheckBasicAttrs(Run(p, NoExc), mode, 1)
        s2 == CheckType(s1, mode)
        s3 == CheckDefaultType(s2, mode)
        s4 == Check1D2D(s3, mode)
        s5 == Check3D(s4, mode)
        s6 == CheckRanges(s5, mode, 1)
    IN [p |-> s6.p, exc |-> s6.exc, ret |-> IF s6.exc = NoExc THEN "preset" ELSE "raised"]

(* lines 178-185: the result of __validate_preset is dropped *)
check_preset(p) ==
    LET r == validate_preset(p, RAISE_MODE)
    IN [p |-> r.p, exc |-> r.exc, ret |-> IF r.exc = NoExc THEN "None" ELSE "raised"]

(* lines 188-196: the result of __validate_preset is dropped *)
complete_preset(p) ==
    LET r == validate_preset(p, FILL_MODE)
    IN [p |-> r.p, exc |-> r.exc, ret |-> IF r.exc = NoExc THEN "None" ELSE "raised"]

(* variant: only the 3D type counts *)
is_3d_preset_Only3D(p) ==
    IF TYPE \notin DOMAIN p THEN [p |-> p, exc |-> KeyError(TYPE), ret |-> "raised"]
    ELSE IF TypeIs(p[TYPE], "3D")
         THEN [p |-> p, exc |-> NoExc, ret |-> "True"]
         ELSE [p |-> p, exc |-> NoExc, ret |-> "False"]

(* lines 199-206; preset[TYPE] of a dict without the key raises KeyError *)
is_3d_preset(p) ==
    IF TYPE \notin DOMAIN p THEN [p |-> p, exc |-> KeyError(TYPE), ret |-> "raised"]
    ELSE IF TypeIs(p[TYPE], "default") \/ TypeIs(p[TYPE], "3D")
         THEN [p |-> p, exc |-> NoExc, ret |-> "True"]
         ELSE [p |-> p, exc |-> NoExc, ret |-> "False"]

(* lines 209-218 *)
is_1d_or_2d_preset(p) ==
    IF TYPE \notin DOMAIN p THEN [p |-> p, exc |-> KeyError(TYPE), ret |-> "raised"]
    ELSE IF TypeIs(p[TYPE], "default") \/ TypeIs(p[TYPE], "1D") \/ TypeIs(p[TYPE], "2D")
         THEN [p |-> p, exc |-> NoExc, ret |-> "True"]
         ELSE [p |-> p, exc |-> NoExc, ret |-> "False"]

-----------------------------------------------------------------------------
(* The presets a caller can build *)

MaxRangeLen == 3

MaxOdd == 2

Absent == [kind |-> "absent", n |-> 0, s |-> "", elems |-> <<>>]

(* a list of l ints: [0, 255, 510, ...] *)
IntList(l) == ListV([i \in 1..l |-> IntV(255 * (i - 1))])

TextValues == {Absent, StrV("x", 1)}

TypeValues == {Absent, StrV("default", 7), StrV("1D", 2), StrV("2D", 2), StrV("3D", 2), StrV("4D", 2)}

BitDepthValues ==
    {Absent, IntV(BITDEPTH_MIN_VALUE - 1), IntV(BITDEPTH_MIN_VALUE),
     IntV(BITDEPTH_MAX_VALUE), IntV(BITDEPTH_MAX_VALUE + 1), StrV("12", 2)}

CubeSizeValues ==
    {Absent, IntV(CUBE_SIZE_MIN_VALUE - 1), IntV(CUBE_SIZE_MIN_VALUE),
     IntV(CUBE_SIZE_MAX_VALUE), IntV(CUBE_SIZE_MAX_VALUE + 1), StrV("17", 2)}

RangeValues ==
    {Absent, IntV(1), GenV(<<IntV(0), IntV(1)>>), get_default_preset[IN_RANGE],
     ListV(<<IntV(0), StrV("a", 1)>>)}
    \cup {IntList(l) : l \in 1..MaxRangeLen}

(* the plain value of the attributes other than type, output_bitdepth and
   cube_size; a preset departs from it in at most MaxOdd of them *)
Plain == (EXT :> StrV("x", 1)) @@ (VERSION :> StrV("x", 1)) @@ (TITLE :> StrV("x", 1))
         @@ (COMMENT :> StrV("x", 1)) @@ (IN_RANGE :> IntList(2)) @@ (OUT_RANGE :> IntList(2))

(* the dict with the keys whose value is not Absent *)
MakePreset(f) == [a \in {b \in Fields : f[b] # Absent} |-> f[a]]

Init ==
    /\ \E ty \in TypeValues, ext \in TextValues, ver \in TextValues, ti \in TextValues,
          co \in TextValues, inr \in RangeValues, outr \in RangeValues,
          bd \in BitDepthValues, cs \in CubeSizeValues :
          LET f == (TYPE :> ty) @@ (EXT :> ext) @@ (VERSION :> ver) @@ (TITLE :> ti)
                   @@ (COMMENT :> co) @@ (IN_RANGE :> inr) @@ (OUT_RANGE :> outr)
                   @@ (OUT_BITDEPTH :> bd) @@ (CUBE_SIZE :> cs)
          IN /\ Cardinality({a \in DOMAIN Plain : f[a] # Plain[a]}) <= MaxOdd
             /\ preset = MakePreset(f)
    /\ before = preset
    /\ last = "init"
    /\ exc = NoExc
    /\ ret = "None"

(* a call of one of the module's functions on the caller's dict *)
Call(name, r) ==
    /\ before' = preset
    /\ preset' = r.p
    /\ last' = name
    /\ exc' = r.exc
    /\ ret' = r.ret

CallCheckPreset == Call("check_preset", check_preset(preset))

CallCompletePreset == Call("complete_preset", complete_preset(preset))

CallIs3dPreset == Call("is_3d_preset", is_3d_preset(preset))

CallIs1dOr2dPreset == Call("is_1d_or_2d_preset", is_1d_or_2d_preset(preset))

(* the caller takes the default preset as its preset *)
CallGetDefaultPreset ==
    Call("get_default_preset", [p |-> get_default_preset, exc |-> NoExc, ret |-> "preset"])

Next ==
    \/ CallCheckPreset
    \/ CallCompletePreset
    \/ CallIs3dPreset
    \/ CallIs1dOr2dPreset
    \/ CallGetDefaultPreset

Spec == Init /\ [][Next]_vars

-----------------------------------------------------------------------------
(* Vocabulary of the properties, stated on a dict p without running the code *)

Has(p, f) == f \in DOMAIN p

HasType(p, t) == Has(p, TYPE) /\ p[TYPE] = StrV(t, Len(t))

ValidTypes == {StrV("default", 7), StrV("1D", 2), StrV("2D", 2), StrV("3D", 2)}

(* an integer within [lo, hi] *)
IntIn(v, lo, hi) == v.kind = "int" /\ v.n >= lo /\ v.n <= hi

ValidBitDepth(p) == Has(p, OUT_BITDEPTH) /\ IntIn(p[OUT_BITDEPTH], 8, 128)

ValidCubeSize(p) == Has(p, CUBE_SIZE) /\ IntIn(p[CUBE_SIZE], 3, 128)

(* a sequence of exactly two int or float values *)
IsPair(v) ==
    /\ v.kind = "list"
    /\ Len(v.elems) = 2
    /\ \A i \in 1..2 : v.elems[i].kind \in {"int", "float"}

(* the type the type-specific rules see: an absent or invalid type is reset *)
EffectiveType(p) == IF Has(p, TYPE) /\ p[TYPE] \in ValidTypes THEN p[TYPE].s ELSE "default"

(* field f of p is absent or violates the rule that applies to it *)
Offending(p, f) ==
    CASE f = TYPE -> ~Has(p, TYPE) \/ p[TYPE] \notin ValidTypes
      [] f \in {IN_RANGE, OUT_RANGE} -> ~Has(p, f) \/ ~IsPair(p[f])
      [] f = OUT_BITDEPTH ->
            \/ EffectiveType(p) = "default" /\ ~Has(p, f)
            \/ EffectiveType(p) \in {"1D", "2D"} /\ ~ValidBitDepth(p)
      [] f = CUBE_SIZE ->
            \/ EffectiveType(p) = "default" /\ ~Has(p, f)
            \/ EffectiveType(p) = "3D" /\ ~ValidCubeSize(p)
      [] OTHER -> ~Has(p, f)

(* field f is the same in p and q: absent in both or present and equal *)
SameField(p, q, f) == (Has(p, f) <=> Has(q, f)) /\ (Has(p, f) => p[f] = q[f])

(* p with field f set to v, or without it when v is Absent *)
With(p, f, v) ==
    IF v = Absent THEN [a \in DOMAIN p \ {f} |-> p[a]] ELSE SetItem(p, f, v)

RECURSIVE FirstMissing(_, _)
(* the first of BASIC_ATTRS, from index i on, that p lacks; "" if none *)
FirstMissing(p, i) ==
    IF i > 7 THEN ""
    ELSE IF ~Has(p, BASIC_ATTRS[i]) THEN BASIC_ATTRS[i] ELSE FirstMissing(p, i + 1)

(* the exception of the first violated rule, in the order: missing basic
   attribute, invalid type, incomplete default type, 1D/2D bit depth,
   3D cube size, invalid input_range, invalid output_range *)
FirstViolation(p) ==
    IF FirstMissing(p, 1) # "" THEN PresetException("missing_attr", FirstMissing(p, 1))
    ELSE IF p[TYPE] \notin ValidTypes THEN PresetException("invalid_type", TYPE)
    ELSE IF HasType(p, "default") /\ (~Has(p, OUT_BITDEPTH) \/ ~Has(p, CUBE_SIZE))
         THEN PresetException("incomplete_default", TYPE)
    ELSE IF (HasType(p, "1D") \/ HasType(p, "2D")) /\ ~Has(p, OUT_BITDEPTH)
         THEN PresetException("missing_bitdepth", OUT_BITDEPTH)
    ELSE IF (HasType(p, "1D") \/ HasType(p, "2D")) /\ ~ValidBitDepth(p)
         THEN PresetException("invalid_bitdepth", OUT_BITDEPTH)
    ELSE IF HasType(p, "3D") /\ ~Has(p, CUBE_SIZE)
         THEN PresetException("missing_cube_size", CUBE_SIZE)
    ELSE IF HasType(p, "3D") /\ ~ValidCubeSize(p)
         THEN PresetException("invalid_cube_size", CUBE_SIZE)
    ELSE IF ~IsPair(p[IN_RANGE]) THEN PresetException("invalid_range", IN_RANGE)
    ELSE IF ~IsPair(p[OUT_RANGE]) THEN PresetException("invalid_range", OUT_RANGE)
    ELSE NoExc

-----------------------------------------------------------------------------
(* C1: after complete_preset has run on a dict, check_preset on the dict it
   left does not raise PresetException, and succeeds whenever complete_preset
   returned. *)
C1_CompleteThenCheck ==
    last = "complete_preset" =>
        /\ check_preset(preset).exc.cls # "PresetException"
        /\ (exc = NoExc => check_preset(preset).exc = NoExc)

(* complete_preset returned on a dict that check_preset rejected *)
C1_Witness ==
    /\ last = "complete_preset"
    /\ exc = NoExc
    /\ check_preset(before).exc.cls = "PresetException"
    /\ check_preset(preset).exc = NoExc

(* C2: a preset of type default that check_preset accepted, or that
   complete_preset processed, has output_bitdepth and cube_size present and
   in range ([8,128] and [3,128]). *)
C2_DefaultInRange ==
    (/\ \/ last = "check_preset" /\ exc = NoExc
        \/ last = "complete_preset"
     /\ HasType(preset, "default"))
    => (ValidBitDepth(preset) /\ ValidCubeSize(preset))

(* C3: complete_preset never raises, whatever the dict holds. *)
C3_CompleteNeverRaises == last = "complete_preset" => exc = NoExc

(* C4: check_preset leaves the dict as it was, whether it returns or
   raises. *)
C4_CheckNoMutation == last = "check_preset" => preset = before

(* check_preset raised on a dict that complete_preset would have changed *)
C4_Witness ==
    /\ last = "check_preset"
    /\ exc.cls = "PresetException"
    /\ complete_preset(before).p # before

(* C5: check_preset on a dict that violates some rule raises the
   PresetException of the first violated rule in the fixed order. *)
C5_FirstViolation ==
    (last = "check_preset" /\ FirstViolation(before) # NoExc) => exc = FirstViolation(before)

(* C6: complete_preset is idempotent: run again on the dict it left, it
   leaves the same dict with the same outcome. *)
C6_Idempotent ==
    last = "complete_preset" =>
        complete_preset(preset) = [p |-> preset, exc |-> exc, ret |-> ret]

(* complete_preset has changed the dict *)
C6_Witness == last = "complete_preset" /\ preset # before /\ exc = NoExc

(* C7: complete_preset returns the repaired preset to its caller. *)
C7_ReturnsPreset == (last = "complete_preset" /\ exc = NoExc) => ret = "preset"

(* C8: complete_preset changes only offending fields and only to the value
   of the default preset; for type 1D with output_bitdepth below 8 the bit
   depth becomes 12. *)
C8_OnlyOffending ==
    last = "complete_preset" =>
        /\ \A f \in Fields :
              \/ SameField(before, preset, f)
              \/ Offending(before, f) /\ Has(preset, f) /\ preset[f] = get_default_preset[f]
        /\ (HasType(before, "1D") /\ Has(before, OUT_BITDEPTH)
            /\ before[OUT_BITDEPTH].kind = "int" /\ before[OUT_BITDEPTH].n < 8)
           => preset[OUT_BITDEPTH] = IntV(12)

(* type 1D with a bit depth below 8: only output_bitdepth has changed, to 12 *)
C8_Witness ==
    /\ last = "complete_preset"
    /\ HasType(before, "1D")
    /\ Has(before, OUT_BITDEPTH) /\ before[OUT_BITDEPTH] = IntV(7)
    /\ preset[OUT_BITDEPTH] = IntV(12)
    /\ \A f \in Fields \ {OUT_BITDEPTH} : SameField(before, preset, f)

(* C9: on a dict with a type, is_3d_preset is true iff the type is default
   or 3D and is_1d_or_2d_preset is true iff it is default, 1D or 2D; both
   are false for any other type; neither changes the dict. *)
C9_Predicates ==
    /\ (last = "is_3d_preset" /\ Has(before, TYPE)) =>
          /\ exc = NoExc /\ ret \in {"True", "False"} /\ preset = before
          /\ ret = "True" <=> (HasType(before, "default") \/ HasType(before, "3D"))
    /\ (last = "is_1d_or_2d_preset" /\ Has(before, TYPE)) =>
          /\ exc = NoExc /\ ret \in {"True", "False"} /\ preset = before
          /\ ret = "True" <=> (HasType(before, "default") \/ HasType(before, "1D")
                               \/ HasType(before, "2D"))
    /\ (last \in {"is_3d_preset", "is_1d_or_2d_preset"} /\ Has(before, TYPE)
        /\ before[TYPE] \notin ValidTypes) => ret = "False"

(* is_3d_preset answered true for a preset of type default *)
C9_Witness == last = "is_3d_preset" /\ HasType(before, "default") /\ ret = "True"

(* C10: for type 1D or 2D, check_preset has the same outcome whatever
   cube_size is, present or not, and complete_preset leaves cube_size as it
   was; the same for type 3D and output_bitdepth. *)
C10_TypeExclusive ==
    /\ (last = "check_preset" /\ (HasType(before, "1D") \/ HasType(before, "2D"))) =>
          \A v \in CubeSizeValues : check_preset(With(before, CUBE_SIZE, v)).exc = exc
    /\ (last = "check_preset" /\ HasType(before, "3D")) =>
          \A v \in BitDepthValues : check_preset(With(before, OUT_BITDEPTH, v)).exc = exc
    /\ (last = "complete_preset" /\ (HasType(before, "1D") \/ HasType(before, "2D"))) =>
          SameField(before, preset, CUBE_SIZE)
    /\ (last = "complete_preset" /\ HasType(before, "3D")) =>
          SameField(before, preset, OUT_BITDEPTH)

(* check_preset accepted a 2D preset without cube_size *)
C10_Witness ==
    /\ last = "check_preset"
    /\ HasType(before, "2D")
    /\ ~Has(before, CUBE_SIZE)
    /\ exc = NoExc

====
